---- MODULE Spec2Model ----
(***************************************************************************)
(* Model of the x402 payment guard of the merchant demo:                   *)
(*   app/x402_handler.py      X402PaymentVerifier (the guard)              *)
(*   app/facilitator_client.py FacilitatorClient (verify / settle calls)   *)
(*                                                                         *)
(* Text is modelled as a sequence of one-character strings, so that        *)
(* strip(), startswith(), lower() and split() are computed character by    *)
(* character.  Python's None is the one-element sequence <<"None">>, which *)
(* is no text of the alphabets used here.  Messages (error texts) are      *)
(* sequences of fragments; an f-string is the concatenation of fragments.  *)
(***************************************************************************)
EXTENDS Integers, Sequences, FiniteSets, TLC

\* ------------------------------------------------------------------ bounds
\* longest nonce / fallback header text enumerated character by character
MaxLen == 3

\* ------------------------------------------------------------ text helpers
None == <<"None">>

\* a JSON value that is no string but is truthy (a number such as 7)
NonStr == <<"int:7">>

\* a JSON value that is no string and is falsy (the number 0)
NonStrZero == <<"int:0">>

\* Python truthiness of an optional text / JSON scalar
Truthy(v) == v # None /\ v # <<>> /\ v # NonStrZero

IsStr(v) == v # None /\ v # NonStr /\ v # NonStrZero

\* all texts over alphabet A of length at most n
Texts(A, n) == UNION {[1..k -> A] : k \in 0..n}

\* str.lower(), one character
LowerChar(c) ==
  CASE c = "A" -> "a"
    [] c = "B" -> "b"
    [] c = "X" -> "x"
    [] OTHER -> c

\* str.lower()
Lower(s) == [i \in 1..Len(s) |-> LowerChar(s[i])]

RECURSIVE LStrip(_)
LStrip(s) == IF s # <<>> /\ Head(s) = " " THEN LStrip(Tail(s)) ELSE s

RECURSIVE RStrip(_)
RStrip(s) ==
  IF s # <<>> /\ s[Len(s)] = " " THEN RStrip(SubSeq(s, 1, Len(s) - 1)) ELSE s

\* str.strip()
Strip(s) == RStrip(LStrip(s))

\* str.startswith(p)
StartsWith(s, p) == Len(s) >= Len(p) /\ SubSeq(s, 1, Len(p)) = p

\* p in s, for a one-character p
HasChar(s, c) == \E i \in 1..Len(s) : s[i] = c

\* index of the first occurrence of character c in s (s contains c)
FirstIndex(s, c) == CHOOSE i \in 1..Len(s) : s[i] = c /\ \A j \in 1..(i - 1) : s[j] # c

\* s.split(c, 1)[1]: what follows the first occurrence of c
AfterFirst(s, c) == SubSeq(s, FirstIndex(s, c) + 1, Len(s))

\* s.split(c, 1)[0]: what precedes the first occurrence of c
BeforeFirst(s, c) == SubSeq(s, 1, FirstIndex(s, c) - 1)

\* message m contains the fragments of e as a contiguous run
Contains(m, e) ==
  \E i \in 0..(Len(m) - Len(e)) : SubSeq(m, i + 1, i + Len(e)) = e


\* ------------------------------------------------------------ configuration
\* the requests in flight are told apart by a slot name
Reqs == {"r1", "r2"}

\* settings.MERCHANT_PAYOUT_WALLET, a mixed-case address of 42 characters
MerchantWallet ==
  [i \in 1..42 |-> CASE i = 1 -> "0" [] i = 2 -> "x" [] i = 3 -> "A"
                      [] OTHER -> "b"]

\* Settings.USDC_TOKEN_ADDRESS, by chain
USDC_TOKEN_ADDRESS(chain) ==
  IF chain = "base" THEN <<"0", "x", "B", "0">> ELSE <<"0", "x", "B", "X">>

\* X402PaymentVerifier.__init__: the PaymentRequirements of the guard
NewPaymentRequirements(network, pay_to_address, payment_asset, asset_name, max_amount_required, resource, resource_description) ==
  [scheme            |-> "exact",
   network           |-> network,
   maxAmountRequired |-> max_amount_required,
   resource          |-> resource,
   description       |-> resource_description,
   payTo             |-> pay_to_address,
   maxTimeoutSeconds |-> 60,
   asset             |-> payment_asset,
   extra             |-> [name |-> asset_name, version |-> "2"]]

\* the guard of the /photos route, as main.py constructs it
PhotosGuardRequirements(chain) ==
  NewPaymentRequirements(chain, MerchantWallet, USDC_TOKEN_ADDRESS(chain),
                         "USDC", "10000",
                         "https://merchant-demo-six.vercel.app/photos",
                         "Pay in crypto for premium access to photos")

\* PaymentRequirements.dict() of no requirements at all (an unset field)
NoRequirements ==
  [scheme |-> "", network |-> "", maxAmountRequired |-> "", resource |-> "",
   description |-> "", payTo |-> <<>>, maxTimeoutSeconds |-> 0,
   asset |-> <<>>, extra |-> [name |-> "", version |-> ""]]

\* ------------------------------------------------- requests and payloads
\* the decoded JSON value of the X-Payment header
\*   shape "nondict": valid JSON that is no object (a list, a number, null)
\*   shape "empty":   {}
\*   shape "noauth":  a non-empty object without payload.authorization
\*   shape "auth":    payload.authorization is an object; nonce / from are
\*                    None when the key is missing
JsonObj(shape, nonce, from) == [shape |-> shape, nonce |-> nonce, from |-> from]

NoObj == JsonObj("none", None, None)

\* the X-Payment header: absent, empty, or a text that decodes (or not)
XPayment(kind, obj) == [kind |-> kind, obj |-> obj]

Request(x_payment, x_payment_hash, x_paymenthash, accept) ==
  [x_payment |-> x_payment, x_payment_hash |-> x_payment_hash,
   x_paymenthash |-> x_paymenthash, accept |-> accept]

NoRequest == Request(XPayment("absent", NoObj), None, None, {})

\* bool(x_payment): an absent header is None, an empty one is ""
XPaymentTruthy(x) == x.kind \notin {"absent", "empty"}

\* headers.get("x-payment-hash") or headers.get("x-paymenthash")
XPaymentHash(req) ==
  IF Truthy(req.x_payment_hash) THEN req.x_payment_hash ELSE req.x_paymenthash

\* mutant: a decoding failure is swallowed and the payload taken as missing
DecodePayload_Lenient(x) == [raised |-> FALSE, error |-> "", obj |-> NoObj]

\* base64.b64decode, decode("utf-8"), json.loads and the .get() calls of the
\* log line inside the try block: the exception text, or the decoded object
DecodePayload(x) ==
  CASE x.kind = "bad_base64" ->
         [raised |-> TRUE, error |-> "Incorrect padding", obj |-> NoObj]
    [] x.kind = "bad_utf8" ->
         [raised |-> TRUE, error |-> "'utf-8' codec can't decode byte",
          obj |-> NoObj]
    [] x.kind = "bad_json" ->
         [raised |-> TRUE, error |-> "Expecting value", obj |-> NoObj]
    [] x.kind = "json" /\ x.obj.shape = "nondict" ->
         [raised |-> TRUE, error |-> "object has no attribute 'get'",
          obj |-> NoObj]
    [] OTHER -> [raised |-> FALSE, error |-> "", obj |-> x.obj]

\* payment_payload_obj["payload"]["authorization"]["nonce"], None on any error
NonceOf(obj) == IF obj.shape = "auth" THEN obj.nonce ELSE None

\* payment_payload_obj["payload"]["authorization"]["from"], None on any error
PayerOf(obj) == IF obj.shape = "auth" THEN obj.from ELSE None

\* mutant: split(":", 1)[0], the scheme is kept instead of the hash
FallbackTxHash_KeepsScheme(h) ==
  IF HasChar(h, ":") THEN BeforeFirst(h, ":") ELSE h

\* the fallback: the text after the first ":" of the header, or all of it
FallbackTxHash(h) == IF HasChar(h, ":") THEN AfterFirst(h, ":") ELSE h

\* mutant: the fallback header is preferred to the nonce
ExtractTxHash_PrefersFallback(x_payment, obj, h) ==
  LET nonce == IF XPaymentTruthy(x_payment) THEN NonceOf(obj) ELSE None
  IN  IF Truthy(h) THEN FallbackTxHash(h) ELSE nonce

\* tx_hash before normalisation: the nonce, else the fallback header
ExtractTxHash(x_payment, obj, h) ==
  LET nonce == IF XPaymentTruthy(x_payment) THEN NonceOf(obj) ELSE None
  IN  IF ~Truthy(nonce) /\ Truthy(h) THEN FallbackTxHash(h) ELSE nonce

\* tx_hash.strip(), then the "0x" prefix unless it starts with "0x"
NormalizeTxHash(t) ==
  LET s == Strip(t)
  IN  IF StartsWith(s, <<"0", "x">>) THEN s ELSE <<"0", "x">> \o s

\* bool(payment_payload_obj): None and {} are falsy
ObjTruthy(obj) == obj.shape \in {"noauth", "auth"}

\* mutant: the configured addresses are passed as they were configured
VerifyPayload_KeepsCase(reqs, t, obj) ==
  [transaction_hash |-> Lower(t),
   chain            |-> reqs.network,
   seller_address   |-> reqs.payTo,
   expected_amount  |-> reqs.maxAmountRequired,
   expected_token   |-> reqs.asset,
   metadata |->
     [source   |-> "x402_merchant_demo",
      resource |-> reqs.resource,
      keys     |-> {"source", "resource"}
                   \cup (IF ObjTruthy(obj) THEN {"paymentPayload"} ELSE {})
                   \cup (IF ObjTruthy(obj) /\ PayerOf(obj) # None
                         THEN {"payer"} ELSE {}),
      paymentPayload |-> IF ObjTruthy(obj) THEN obj ELSE NoObj,
      payer          |-> IF ObjTruthy(obj) THEN PayerOf(obj) ELSE None]]

\* the arguments of facilitator_client.verify_payment
VerifyPayload(reqs, t, obj) ==
  [transaction_hash |-> Lower(t),
   chain            |-> reqs.network,
   seller_address   |-> Lower(reqs.payTo),
   expected_amount  |-> reqs.maxAmountRequired,
   expected_token   |-> Lower(reqs.asset),
   metadata |->
     [source   |-> "x402_merchant_demo",
      resource |-> reqs.resource,
      keys     |-> {"source", "resource"}
                   \cup (IF ObjTruthy(obj) THEN {"paymentPayload"} ELSE {})
                   \cup (IF ObjTruthy(obj) /\ PayerOf(obj) # None
                         THEN {"payer"} ELSE {}),
      paymentPayload |-> IF ObjTruthy(obj) THEN obj ELSE NoObj,
      payer          |-> IF ObjTruthy(obj) THEN PayerOf(obj) ELSE None]]

\* mutant: the required amount is passed along
SettlePayload_WithAmount(reqs, vid) ==
  [verification_id     |-> vid,
   destination_address |-> Lower(reqs.payTo),
   amount              |-> <<reqs.maxAmountRequired>>,
   metadata            |-> [source |-> "x402_merchant_demo"]]

\* the arguments of facilitator_client.settle_payment
SettlePayload(reqs, vid) ==
  [verification_id     |-> vid,
   destination_address |-> Lower(reqs.payTo),
   amount              |-> None,
   metadata            |-> [source |-> "x402_merchant_demo"]]

\* -------------------------------------------------------- guard outcomes
Pending ==
  [kind |-> "pending", granted |-> FALSE, status_code |-> 0,
   x402Version |-> 0, error |-> <<>>, accepts |-> NoRequirements]

\* return granted, self.payment_requirements
Return(granted, reqs) ==
  [kind |-> "return", granted |-> granted, status_code |-> 0,
   x402Version |-> 0, error |-> <<>>, accepts |-> reqs]

\* raise HTTPException(status_code=402, detail={x402Version, error, accepts})
Raise402(error, reqs) ==
  [kind |-> "http_exception", granted |-> FALSE, status_code |-> 402,
   x402Version |-> 1, error |-> error, accepts |-> reqs]

\* an exception that is no HTTPException leaves the guard
Unhandled(error) ==
  [kind |-> "unhandled", granted |-> FALSE, status_code |-> 0,
   x402Version |-> 0, error |-> error, accepts |-> NoRequirements]

Call(op, args) == [op |-> op, args |-> args]

NoCall == <<>>

\* ---------------------------------------------------- facilitator client
\* the remote answer to one POST: a transport exception, or a status with a
\* response text; a 200 answer has a body that parses as JSON or does not
Body(json, verification_id, id, verificationId) ==
  [json |-> json, verification_id |-> verification_id, id |-> id,
   verificationId |-> verificationId]

NoData == Body("none", None, None, None)

Response(kind, status_code, text, body) ==
  [kind |-> kind, status_code |-> status_code, text |-> text, body |-> body]

\* what a client call hands to its caller: a result mapping, or an exception
\* that leaves the client (raised)
Result(raised, keys, success, data, error, status_code) ==
  [raised |-> raised, keys |-> keys, success |-> success, data |-> data,
   error |-> error, status_code |-> status_code]

NoResult == Result(FALSE, {}, FALSE, NoData, <<>>, 0)

\* the classification shared by verify_payment and settle_payment
ClassifyResponse(resp) ==
  IF resp.kind = "exception"
  THEN Result(FALSE, {"success", "error"}, FALSE, NoData, <<resp.text>>, 0)
  ELSE IF resp.status_code = 200
       THEN IF resp.body.json = "invalid"
            THEN Result(TRUE, {}, FALSE, NoData, <<"JSONDecodeError">>, 0)
            ELSE Result(FALSE, {"success", "data"}, TRUE, resp.body, <<>>, 0)
       ELSE Result(FALSE, {"success", "error", "status_code"}, FALSE, NoData,
                   <<"HTTP ", ToString(resp.status_code), ": ", resp.text>>,
                   resp.status_code)

\* FacilitatorClient.verify_payment
verify_payment(resp) == ClassifyResponse(resp)

\* FacilitatorClient.settle_payment
settle_payment(resp) == ClassifyResponse(resp)

\* ------------------------------------------------------------- the guard
\* what one run of guard code between two suspension points does: where the
\* request is next, the guard's outcome, the facilitator call it issues and
\* the local tx_hash
Step(pc_, outcome_, call_, tx_hash_) ==
  [pc |-> pc_, outcome |-> outcome_, call |-> call_, tx_hash |-> tx_hash_]

\* mutant: the requirements are handed back in their normalised form
NoPaymentOutcome_Normalised(reqs, accept) ==
  IF "text/html" \in accept
  THEN Return(FALSE, [reqs EXCEPT !.payTo = Lower(@), !.asset = Lower(@)])
  ELSE Raise402(<<"X-Payment header is required.">>,
                [reqs EXCEPT !.payTo = Lower(@), !.asset = Lower(@)])

\* no payment headers: the pair for a browser, the 402 for everybody else
NoPaymentOutcome(reqs, accept) ==
  IF "text/html" \in accept
  THEN Return(FALSE, reqs)
  ELSE Raise402(<<"X-Payment header is required.">>, reqs)

\* the except branch of the decoding
InvalidPayloadOutcome(reqs, dec) ==
  Raise402(<<"Invalid X-Payment payload: ", dec.error>>, reqs)

\* mutant: the missing identifier is reported as a missing header
MissingHashOutcome_AsNoPayment(reqs) ==
  Raise402(<<"X-Payment header is required.">>, reqs)

\* no tx_hash from either header
MissingHashOutcome(reqs) ==
  Raise402(<<"Transaction hash not found in payment headers">>, reqs)

\* mutant: a browser gets the pair back for a missing identifier as well
GuardEntry_PairForMissingHash(reqs, req) ==
  LET x   == req.x_payment
      h   == XPaymentHash(req)
      dec == IF XPaymentTruthy(x) THEN DecodePayload(x)
             ELSE [raised |-> FALSE, error |-> "", obj |-> NoObj]
      t   == ExtractTxHash(x, dec.obj, h)
  IN  IF ~XPaymentTruthy(x) /\ ~Truthy(h)
      THEN Step("done", NoPaymentOutcome(reqs, req.accept), NoCall, None)
      ELSE IF dec.raised
      THEN Step("done", InvalidPayloadOutcome(reqs, dec), NoCall, None)
      ELSE IF ~Truthy(t)
      THEN Step("done", NoPaymentOutcome(reqs, req.accept), NoCall, None)
      ELSE IF ~IsStr(t)
      THEN Step("done", Unhandled(<<"AttributeError: strip">>), NoCall, t)
      ELSE Step("verifying", Pending,
                <<Call("verify_payment",
                       VerifyPayload(reqs, NormalizeTxHash(t), dec.obj))>>,
                NormalizeTxHash(t))

\* __call__ from its entry to the await of verify_payment
GuardEntry(reqs, req) ==
  LET x   == req.x_payment
      h   == XPaymentHash(req)
      dec == IF XPaymentTruthy(x) THEN DecodePayload(x)
             ELSE [raised |-> FALSE, error |-> "", obj |-> NoObj]
      t   == ExtractTxHash(x, dec.obj, h)
  IN  IF ~XPaymentTruthy(x) /\ ~Truthy(h)
      THEN Step("done", NoPaymentOutcome(reqs, req.accept), NoCall, None)
      ELSE IF dec.raised
      THEN Step("done", InvalidPayloadOutcome(reqs, dec), NoCall, None)
      ELSE IF ~Truthy(t)
      THEN Step("done", MissingHashOutcome(reqs), NoCall, None)
      ELSE IF ~IsStr(t)
      THEN Step("done", Unhandled(<<"AttributeError: strip">>), NoCall, t)
      ELSE Step("verifying", Pending,
                <<Call("verify_payment",
                       VerifyPayload(reqs, NormalizeTxHash(t), dec.obj))>>,
                NormalizeTxHash(t))

\* result.get("error", "verification failed")
VerifyErrorText(result) ==
  IF "error" \in result.keys THEN result.error ELSE <<"verification failed">>

\* mutant: the facilitator's error text is dropped from the denial
VerifyFailedOutcome_NoText(reqs, result) ==
  Raise402(<<"Payment verification failed">>, reqs)

\* the denial after a verify result without success
VerifyFailedOutcome(reqs, result) ==
  Raise402(<<"Payment verification failed: ">> \o VerifyErrorText(result), reqs)

\* mutant: the key id is looked up before the key verification_id
VerificationId_IdFirst(data) ==
  IF Truthy(data.id) THEN data.id
  ELSE IF Truthy(data.verification_id) THEN data.verification_id
  ELSE data.verificationId

\* mutant: a placeholder identifier when the response carries none
VerificationId_Default(data) ==
  IF Truthy(data.verification_id) THEN data.verification_id
  ELSE IF Truthy(data.id) THEN data.id
  ELSE IF Truthy(data.verificationId) THEN data.verificationId
  ELSE <<"unknown">>

\* verification_data.get("verification_id") or .get("id") or
\* .get("verificationId")
VerificationId(data) ==
  IF Truthy(data.verification_id) THEN data.verification_id
  ELSE IF Truthy(data.id) THEN data.id
  ELSE data.verificationId

\* mutant: a failed verify call is issued once more
GuardAfterVerify_Retries(reqs, result) ==
  IF result.raised
  THEN Step("done", Unhandled(result.error), NoCall, None)
  ELSE IF ~("success" \in result.keys /\ result.success)
  THEN Step("verifying", Pending,
            <<Call("verify_payment", VerifyPayload(reqs, <<>>, NoObj))>>, None)
  ELSE IF "data" \notin result.keys
  THEN Step("done", Unhandled(<<"KeyError: data">>), NoCall, None)
  ELSE IF result.data.json # "object"
  THEN Step("done", Unhandled(<<"AttributeError: get">>), NoCall, None)
  ELSE IF ~Truthy(VerificationId(result.data))
  THEN Step("done", Return(TRUE, reqs), NoCall, None)
  ELSE Step("settling", Pending,
            <<Call("settle_payment",
                   SettlePayload(reqs, VerificationId(result.data)))>>, None)

\* __call__ from the return of verify_payment to the await of settle_payment
GuardAfterVerify(reqs, result) ==
  IF result.raised
  THEN Step("done", Unhandled(result.error), NoCall, None)
  ELSE IF ~("success" \in result.keys /\ result.success)
  THEN Step("done", VerifyFailedOutcome(reqs, result), NoCall, None)
  ELSE IF "data" \notin result.keys
  THEN Step("done", Unhandled(<<"KeyError: data">>), NoCall, None)
  ELSE IF result.data.json # "object"
  THEN Step("done", Unhandled(<<"AttributeError: get">>), NoCall, None)
  ELSE IF ~Truthy(VerificationId(result.data))
  THEN Step("done", Return(TRUE, reqs), NoCall, None)
  ELSE Step("settling", Pending,
            <<Call("settle_payment",
                   SettlePayload(reqs, VerificationId(result.data)))>>, None)

\* settle_result.get('error'), formatted by the f-string
SettleErrorText(settle_result) ==
  IF "error" \in settle_result.keys THEN settle_result.error ELSE <<"None">>

\* mutant: the settlement denial is worded like the verification denial
SettleFailedOutcome_AsVerification(reqs, settle_result) ==
  Raise402(<<"Payment verification failed: ">> \o SettleErrorText(settle_result),
           reqs)

\* mutant: the facilitator's error text is dropped from the denial
SettleFailedOutcome_NoText(reqs, settle_result) ==
  Raise402(<<"Payment settlement failed">>, reqs)

\* the denial after a settle result without success
SettleFailedOutcome(reqs, settle_result) ==
  Raise402(<<"Payment settlement failed: ">> \o SettleErrorText(settle_result),
           reqs)

\* mutant: the settle result is not looked at
GuardAfterSettle_IgnoresFailure(reqs, settle_result) ==
  IF settle_result.raised
  THEN Step("done", Unhandled(settle_result.error), NoCall, None)
  ELSE Step("done", Return(TRUE, reqs), NoCall, None)

\* __call__ from the return of settle_payment to its end
GuardAfterSettle(reqs, settle_result) ==
  IF settle_result.raised
  THEN Step("done", Unhandled(settle_result.error), NoCall, None)
  ELSE IF ~("success" \in settle_result.keys /\ settle_result.success)
  THEN Step("done", SettleFailedOutcome(reqs, settle_result), NoCall, None)
  ELSE Step("done", Return(TRUE, reqs), NoCall, None)

\* ----------------------------------------------------------------- inputs
\* characters of the enumerated nonces: prefix characters in both cases,
\* letters in both cases, and white space
NonceAlphabet == {"0", "x", "X", "a", "B", " "}

\* characters of the enumerated fallback headers
HashAlphabet == {"0", "x", "B", ":", " "}

\* payload.authorization.from of the payloads that carry one
Payer == <<"0", "x", "B", "a">>

\* a header value reaches the application without surrounding white space
HeaderTexts(A, n) == {s \in Texts(A, n) : Strip(s) = s}

\* requests whose nonce runs over every text up to MaxLen
NonceRequests ==
  {Request(XPayment("json", JsonObj("auth", n, Payer)), h, None,
           {"application/json"}) :
     n \in Texts(NonceAlphabet, MaxLen), h \in {None}}

\* requests whose fallback header runs over every header text up to MaxLen
FallbackRequests ==
  {Request(x, h, None, {"application/json"}) :
     x \in {XPayment("absent", NoObj),
            XPayment("json", JsonObj("noauth", None, None))},
     h \in {None} \cup HeaderTexts(HashAlphabet, MaxLen)}

SampleNonces == {None, NonStr, NonStrZero, <<>>, <<" ">>, <<"0", "X", "a">>}

SampleXPayments ==
  {XPayment(k, NoObj) : k \in {"absent", "empty", "bad_base64", "bad_utf8",
                               "bad_json"}}
  \cup {XPayment("json", JsonObj(sh, None, None)) :
          sh \in {"nondict", "empty", "noauth"}}
  \cup {XPayment("json", JsonObj("auth", n, f)) :
          n \in SampleNonces, f \in {None, Payer}}

\* requests over every shape of header, both spellings of the fallback header
\* and every combination of the two media types the code looks for
SampleRequests ==
  {Request(x, h, h2, acc) :
     x \in SampleXPayments, h \in {None, <<>>, <<"e", ":">>},
     h2 \in {None, <<"0", "x", "B">>},
     acc \in SUBSET {"text/html", "application/json"}}

Requests == NonceRequests \cup FallbackRequests \cup SampleRequests

IdValues(v) == {None, <<>>, <<v>>}

\* the remote answers to a verify call
VerifyResponses ==
  {Response("exception", 0, "connection refused", NoData),
   Response("http", 402, "rejected", NoData),
   Response("http", 500, "", NoData),
   Response("http", 200, "", Body("invalid", None, None, None)),
   Response("http", 200, "", Body("nondict", None, None, None))}
  \cup {Response("http", 200, "", Body("object", a, b, c)) :
          a \in IdValues("v1"), b \in IdValues("v2"), c \in IdValues("v3")}

\* the remote answers to a settle call
SettleResponses ==
  {Response("exception", 0, "timed out", NoData),
   Response("http", 402, "insufficient funds", NoData),
   Response("http", 200, "", Body("invalid", None, None, None)),
   Response("http", 200, "", Body("object", None, None, None))}

Chains == {"base", "base-sepolia"}

\* ---------------------------------------------------------------- startup
\* the length validate() requires of the merchant wallet address
AddressLength == 42

\* the process environment: the names that are set, and their values
Env(defined, wallet, treasury, base_url, chain) ==
  [defined |-> defined, MERCHANT_PAYOUT_WALLET |-> wallet,
   OXMETA_TREASURY_WALLET |-> treasury, FACILITATOR_BASE_URL |-> base_url,
   CHAIN |-> chain]

EnvNames ==
  {"MERCHANT_PAYOUT_WALLET", "OXMETA_TREASURY_WALLET", "FACILITATOR_BASE_URL",
   "CHAIN"}

\* os.getenv(name, default)
Getenv(env, name, default) == IF name \in env.defined THEN env[name] ELSE default

\* the attributes of the Settings class, read from the environment
Settings(env) ==
  [MERCHANT_PAYOUT_WALLET |-> Getenv(env, "MERCHANT_PAYOUT_WALLET", None),
   OXMETA_TREASURY_WALLET |-> Getenv(env, "OXMETA_TREASURY_WALLET", None),
   FACILITATOR_BASE_URL   |-> Getenv(env, "FACILITATOR_BASE_URL", None),
   CHAIN                  |-> Getenv(env, "CHAIN", "base-sepolia")]

\* mutant: the length of the wallet address is not checked
validate_NoLengthCheck(settings) ==
  CASE ~Truthy(settings.MERCHANT_PAYOUT_WALLET) ->
         "Missing MERCHANT_PAYOUT_WALLET environment variable"
    [] ~StartsWith(settings.MERCHANT_PAYOUT_WALLET, <<"0", "x">>) ->
         "MERCHANT_PAYOUT_WALLET must be a valid Ethereum address starting with 0x"
    [] ~Truthy(settings.OXMETA_TREASURY_WALLET) ->
         "Missing OXMETA_TREASURY_WALLET environment variable"
    [] ~Truthy(settings.FACILITATOR_BASE_URL) ->
         "Missing FACILITATOR_BASE_URL environment variable"
    [] settings.CHAIN \notin Chains -> "Invalid CHAIN"
    [] OTHER -> ""

\* Settings.validate: the text of the ValueError it raises, "" when it passes
validate(settings) ==
  CASE ~Truthy(settings.MERCHANT_PAYOUT_WALLET) ->
         "Missing MERCHANT_PAYOUT_WALLET environment variable"
    [] ~StartsWith(settings.MERCHANT_PAYOUT_WALLET, <<"0", "x">>) ->
         "MERCHANT_PAYOUT_WALLET must be a valid Ethereum address starting with 0x"
    [] Len(settings.MERCHANT_PAYOUT_WALLET) # AddressLength ->
         "MERCHANT_PAYOUT_WALLET must be 42 characters long"
    [] ~Truthy(settings.OXMETA_TREASURY_WALLET) ->
         "Missing OXMETA_TREASURY_WALLET environment variable"
    [] ~Truthy(settings.FACILITATOR_BASE_URL) ->
         "Missing FACILITATOR_BASE_URL environment variable"
    [] settings.CHAIN \notin Chains -> "Invalid CHAIN"
    [] OTHER -> ""

RECURSIVE RStripSlash(_)
\* str.rstrip("/")
RStripSlash(s) ==
  IF s # <<>> /\ s[Len(s)] = "/" THEN RStripSlash(SubSeq(s, 1, Len(s) - 1))
  ELSE s

\* the default of FACILITATOR_BASE_URL in facilitator_client.py
LocalFacilitator == <<"l", "o", "c", "a", "l">>

\* FACILITATOR_BASE of facilitator_client.py
FACILITATOR_BASE(env) ==
  RStripSlash(Getenv(env, "FACILITATOR_BASE_URL", LocalFacilitator))

\* FacilitatorClient.__init__
NewFacilitatorClient(base_url) == [constructed |-> TRUE, base_url |-> base_url]

NoFacilitatorClient == [constructed |-> FALSE, base_url |-> None]

\* an environment that passes validate()
GoodEnv == Env(EnvNames, MerchantWallet, <<"0", "x", "T">>, <<"f", "/">>, "base")

\* the environments the process is started in: the good one, and the good
\* one with one name unset or set to another value
Envs ==
  {GoodEnv}
  \cup {[GoodEnv EXCEPT !.MERCHANT_PAYOUT_WALLET = w] :
          w \in {<<>>, <<"0", "x", "A", "b">>,
                 <<"A", "b">> \o [i \in 1..(AddressLength - 2) |-> "b"]}}
  \cup {[GoodEnv EXCEPT !.OXMETA_TREASURY_WALLET = <<>>],
        [GoodEnv EXCEPT !.FACILITATOR_BASE_URL = <<>>],
        [GoodEnv EXCEPT !.FACILITATOR_BASE_URL = <<"/">>]}
  \cup {[GoodEnv EXCEPT !.CHAIN = c] : c \in {"mainnet", ""}}
  \cup {[GoodEnv EXCEPT !.defined = @ \ {"MERCHANT_PAYOUT_WALLET"},
                        !.MERCHANT_PAYOUT_WALLET = <<>>],
        [GoodEnv EXCEPT !.defined = @ \ {"OXMETA_TREASURY_WALLET"},
                        !.OXMETA_TREASURY_WALLET = <<>>],
        [GoodEnv EXCEPT !.defined = @ \ {"FACILITATOR_BASE_URL"},
                        !.FACILITATOR_BASE_URL = <<>>],
        [GoodEnv EXCEPT !.defined = @ \ {"CHAIN"}, !.CHAIN = ""]}

\* ------------------------------------------------------- the /photos route
\* what the route answers: nothing yet, the wait for the resource fetch, or
\* a response with its status; fetch tells whether the outbound fetch of the
\* protected resource was issued (pending) and how it ended (ok, failed)
RouteResponse(kind, status_code, body, accepts, fetch) ==
  [kind |-> kind, status_code |-> status_code, body |-> body,
   accepts |-> accepts, fetch |-> fetch]

NoResponse == RouteResponse("none", 0, <<>>, NoRequirements, "none")

Fetching == RouteResponse("fetching", 0, <<>>, NoRequirements, "pending")

\* mutant: the handler does not look at settled[0]
get_photos_Unchecked(granted, reqs, accept) == Fetching

\* get_photos up to the resource fetch, for the pair the guard returned
get_photos(granted, reqs, accept) ==
  IF ~granted
  THEN IF "application/json" \in accept
       THEN RouteResponse("json", 402, <<"X-PAYMENT header is required.">>,
                          reqs, "none")
       ELSE RouteResponse("html", 200, <<"paywall.html">>, reqs, "none")
  ELSE Fetching

\* what the framework makes of the guard's outcome: the 402 of an
\* HTTPException, a 500 for any other exception, else the route handler
RouteAfterGuard(out, accept) ==
  CASE out.kind = "http_exception" ->
         RouteResponse("json", out.status_code, out.error, out.accepts, "none")
    [] out.kind = "unhandled" ->
         RouteResponse("error", 500, <<"Internal Server Error">>,
                       NoRequirements, "none")
    [] OTHER -> get_photos(out.granted, out.accepts, accept)

\* get_photos from the return of the resource fetch to its end
PhotosResponse(fetched, accept) ==
  IF ~fetched
  THEN RouteResponse("error", 500, <<"Internal Server Error">>,
                     NoRequirements, "failed")
  ELSE IF "application/json" \in accept
       THEN RouteResponse("json", 200, <<"photos">>, NoRequirements, "ok")
       ELSE RouteResponse("html", 200, <<"gallery.html">>, NoRequirements, "ok")

\* ------------------------------------------------- merchant approval
\* the keys of NETWORKS
NETWORKS == {"base", "base-sepolia"}

\* NETWORKS[network]["rpc_urls"]
rpc_urls(network) ==
  IF network = "base"
  THEN <<"https://mainnet.base.org", "https://base.llamarpc.com",
         "https://base.blockpi.network/v1/rpc/public">>
  ELSE <<"https://sepolia.base.org",
         "https://base-sepolia.blockpi.network/v1/rpc/public",
         "https://base-sepolia-rpc.publicnode.com">>

\* what one endpoint does when it is tried: is_connected() is true, is
\* false, or the construction or the test raises
RpcOutcomes == {"connected", "not_connected", "raises"}

\* the for loop of _get_web3_connection: the list, the index of the endpoint
\* tried next, the endpoints tried so far and the endpoint returned
Web3Loop(pc_, urls, i, tried, url) ==
  [pc |-> pc_, urls |-> urls, i |-> i, tried |-> tried, url |-> url]

NoWeb3 == Web3Loop("idle", <<>>, 1, <<>>, "")

\* _get_web3_connection is entered: the loop over an empty list ends at once
get_web3_connection(urls) ==
  IF urls = <<>> THEN Web3Loop("raised", urls, 1, <<>>, "")
  ELSE Web3Loop("trying", urls, 1, <<>>, "")

\* mutant: an endpoint that raises ends the loop
TryRpc_StopsOnError(w, o) ==
  LET t == Append(w.tried, [url |-> w.urls[w.i], outcome |-> o])
  IN  IF o = "connected"
      THEN [w EXCEPT !.pc = "connected", !.tried = t, !.url = w.urls[w.i]]
      ELSE IF o = "raises" \/ w.i = Len(w.urls)
      THEN [w EXCEPT !.pc = "raised", !.tried = t]
      ELSE [w EXCEPT !.i = @ + 1, !.tried = t]

\* one iteration of the loop, the endpoint answering o; after the last
\* endpoint the ConnectionError is raised
TryRpc(w, o) ==
  LET t == Append(w.tried, [url |-> w.urls[w.i], outcome |-> o])
  IN  IF o = "connected"
      THEN [w EXCEPT !.pc = "connected", !.tried = t, !.url = w.urls[w.i]]
      ELSE IF w.i = Len(w.urls)
      THEN [w EXCEPT !.pc = "raised", !.tried = t]
      ELSE [w EXCEPT !.i = @ + 1, !.tried = t]

\* what setup_approval hands to its caller: a result mapping, or an
\* exception (raised)
ApprovalResult(raised, success, keys, error, tx_hash) ==
  [raised |-> raised, success |-> success, keys |-> keys, error |-> error,
   tx_hash |-> tx_hash]

NoApprovalResult == ApprovalResult(FALSE, FALSE, {}, "", None)

\* the default of amount_usdc, which the startup hook passes as well
AmountUsdc == 1000

\* amounts are counted in hundredths of a USDC
Cents(usdc) == usdc * 100

\* how far the try block of setup_approval gets: the step that raises, or
\* the status of the receipt (and whether the allowance can be read again)
TxOutcomes ==
  {"gas_price_raises", "build_raises", "sign_raises", "send_raises",
   "wait_raises", "status_0", "status_1", "status_1_allowance_raises"}

\* send_raw_transaction returned
TxSent(tx) ==
  tx \in {"wait_raises", "status_0", "status_1", "status_1_allowance_raises"}

\* what the operator types at the prompt
Answers ==
  {<<"y">>, <<"Y", "E", "S">>, <<" ", "y", "e", "s">>, <<"n", "o">>, <<>>}

\* the terminal, the operator and the chain as one run of setup_approval
\* finds them: allowance in hundredths of a USDC, eth in 0.0001 ETH
ApprovalIo(isatty, answer, pre, allowance, eth, tx) ==
  [isatty |-> isatty, answer |-> answer, pre |-> pre, allowance |-> allowance,
   eth |-> eth, tx |-> tx]

NoIo == ApprovalIo(FALSE, <<>>, "ok", 0, 0, "status_1")

ApprovalIos ==
  {ApprovalIo(t, a, p, al, e, tx) :
     t \in BOOLEAN, a \in Answers, p \in {"ok", "raises"},
     al \in {0, Cents(AmountUsdc) - 1, Cents(AmountUsdc)}, e \in {0, 9, 10},
     tx \in TxOutcomes}

\* what a part of setup_approval leaves behind: the result, the number of
\* transactions sent and whether the operator was asked
ApprovalRun(result, sent, prompted) ==
  [result |-> result, sent |-> sent, prompted |-> prompted]

\* mutant: the status of the receipt is not looked at
SendApproval_IgnoresStatus(tx, prompted) ==
  CASE tx \in {"status_0", "status_1"} ->
         ApprovalRun(ApprovalResult(FALSE, TRUE,
                       {"success", "message", "tx_hash", "new_allowance_usdc",
                        "estimated_transactions", "explorer_url"},
                       "", <<"tx">>), 1, prompted)
    [] OTHER ->
         ApprovalRun(ApprovalResult(FALSE, FALSE, {"success", "error"}, tx,
                                    None),
                     IF TxSent(tx) THEN 1 ELSE 0, prompted)

\* the try block of setup_approval: build, sign, send, wait, read again
SendApproval(tx, prompted) ==
  CASE tx = "status_1" ->
         ApprovalRun(ApprovalResult(FALSE, TRUE,
                       {"success", "message", "tx_hash", "new_allowance_usdc",
                        "estimated_transactions", "explorer_url"},
                       "", <<"tx">>), 1, prompted)
    [] tx = "status_0" ->
         ApprovalRun(ApprovalResult(FALSE, FALSE,
                       {"success", "error", "tx_hash"}, "Transaction failed",
                       <<"tx">>), 1, prompted)
    [] OTHER ->
         ApprovalRun(ApprovalResult(FALSE, FALSE, {"success", "error"}, tx,
                                    None),
                     IF TxSent(tx) THEN 1 ELSE 0, prompted)

\* confirm not in ['yes', 'y'] after strip().lower()
Declined(answer) ==
  Lower(Strip(answer)) \notin {<<"y", "e", "s">>, <<"y">>}

\* mutant: the gas check is made before the allowance check
SetupApprovalBody_GasFirst(auto_confirm, connected, io) ==
  IF ~connected
  THEN ApprovalRun(ApprovalResult(TRUE, FALSE, {}, "ConnectionError", None),
                   0, FALSE)
  ELSE IF io.pre = "raises"
  THEN ApprovalRun(ApprovalResult(TRUE, FALSE, {}, "rpc error", None), 0, FALSE)
  ELSE IF io.eth < 10
  THEN ApprovalRun(ApprovalResult(FALSE, FALSE,
                     {"success", "error", "insufficient_gas", "eth_balance"},
                     "Insufficient ETH for gas fees", None), 0, FALSE)
  ELSE IF io.allowance >= Cents(AmountUsdc)
  THEN ApprovalRun(ApprovalResult(FALSE, TRUE,
                     {"success", "message", "already_approved",
                      "current_allowance_usdc", "tx_hash"}, "", None), 0, FALSE)
  ELSE IF ~auto_confirm /\ io.isatty /\ Declined(io.answer)
  THEN ApprovalRun(ApprovalResult(FALSE, FALSE, {"success", "error"},
                                  "Approval cancelled by user", None), 0, TRUE)
  ELSE SendApproval(io.tx, ~auto_confirm /\ io.isatty)

\* setup_approval from the return of _get_web3_connection to its end
SetupApprovalBody(auto_confirm, connected, io) ==
  IF ~connected
  THEN ApprovalRun(ApprovalResult(TRUE, FALSE, {}, "ConnectionError", None),
                   0, FALSE)
  ELSE IF io.pre = "raises"
  THEN ApprovalRun(ApprovalResult(TRUE, FALSE, {}, "rpc error", None), 0, FALSE)
  ELSE IF io.allowance >= Cents(AmountUsdc)
  THEN ApprovalRun(ApprovalResult(FALSE, TRUE,
                     {"success", "message", "already_approved",
                      "current_allowance_usdc", "tx_hash"}, "", None), 0, FALSE)
  ELSE IF io.eth < 10
  THEN ApprovalRun(ApprovalResult(FALSE, FALSE,
                     {"success", "error", "insufficient_gas", "eth_balance"},
                     "Insufficient ETH for gas fees", None), 0, FALSE)
  ELSE IF ~auto_confirm /\ io.isatty /\ Declined(io.answer)
  THEN ApprovalRun(ApprovalResult(FALSE, FALSE, {"success", "error"},
                                  "Approval cancelled by user", None), 0, TRUE)
  ELSE SendApproval(io.tx, ~auto_confirm /\ io.isatty)

\* the run of setup_approval: its arguments, what it found, what it did
Approval(pc_, network, auto_confirm, io, run) ==
  [pc |-> pc_, network |-> network, auto_confirm |-> auto_confirm, io |-> io,
   result |-> run.result, sent |-> run.sent, prompted |-> run.prompted]

NoApproval ==
  Approval("idle", "", FALSE, NoIo, ApprovalRun(NoApprovalResult, 0, FALSE))

\* what check_approval_status hands to the startup hook: an exception or a
\* mapping; allowance_usdc in hundredths of a USDC
ApprovalStatus(kind, keys, approved, allowance_usdc) ==
  [kind |-> kind, keys |-> keys, approved |-> approved,
   allowance_usdc |-> allowance_usdc]

NoStatus == ApprovalStatus("none", {}, FALSE, 0)

\* the keys the startup hook reads from the status
StatusKeys == {"approved", "allowance_usdc", "facilitator_address"}

ApprovalStatuses ==
  {ApprovalStatus("raises", {}, FALSE, 0)}
  \cup {ApprovalStatus("dict", StatusKeys \ k, a, al) :
          k \in {{}, {"approved"}, {"allowance_usdc"}}, a \in BOOLEAN,
          al \in {0, 1, Cents(10) - 1, Cents(10)}}

\* what setup_approval may hand to the startup hook: every result of a run
\* with auto_confirm, its ValueError, and mappings without the keys read
SetupResults ==
  {SetupApprovalBody(TRUE, c, io).result : c \in BOOLEAN, io \in ApprovalIos}
  \cup {ApprovalResult(TRUE, FALSE, {}, "ValueError", None),
        ApprovalResult(FALSE, TRUE, {"success"}, "", None),
        ApprovalResult(FALSE, FALSE, {"success"}, "", None),
        ApprovalResult(FALSE, FALSE, {}, "", None)}

\* the run of startup_event: where it stands, what it found, the number of
\* setup_approval calls, whether it raised, and the last thing it printed
Startup(pc_, available, key_set, status, setup_calls, raised, log) ==
  [pc |-> pc_, available |-> available, key_set |-> key_set,
   status |-> status, setup_calls |-> setup_calls, raised |-> raised,
   log |-> log]

NoStartup == Startup("idle", FALSE, FALSE, NoStatus, 0, FALSE, "")

\* startup_event from its entry to the await of check_approval_status
StartupEntry(available, key_set) ==
  IF ~available
  THEN Startup("done", available, key_set, NoStatus, 0, FALSE, "module missing")
  ELSE IF ~key_set
  THEN Startup("done", available, key_set, NoStatus, 0, FALSE, "key not set")
  ELSE Startup("checking", available, key_set, NoStatus, 0, FALSE, "checking")

\* mutant: the approval is set up as well when the status check failed
StartupAfterCheck_SetsUpOnError(st, status) ==
  IF status.kind = "raises" \/ ~(StatusKeys \subseteq status.keys)
  THEN [st EXCEPT !.pc = "setting_up", !.status = status,
                  !.setup_calls = @ + 1, !.log = "setting up"]
  ELSE IF status.approved /\ status.allowance_usdc >= Cents(10)
  THEN [st EXCEPT !.pc = "done", !.status = status, !.log = "approval ok"]
  ELSE [st EXCEPT !.pc = "setting_up", !.status = status,
                  !.setup_calls = @ + 1,
                  !.log = IF status.approved THEN "increasing" ELSE "setting up"]

\* startup_event from the return of check_approval_status to the await of
\* setup_approval or to its end; an exception and a missing key end in the
\* outer except
StartupAfterCheck(st, status) ==
  IF status.kind = "raises" \/ ~(StatusKeys \subseteq status.keys)
  THEN [st EXCEPT !.pc = "done", !.status = status, !.log = "error checking"]
  ELSE IF status.approved /\ status.allowance_usdc >= Cents(10)
  THEN [st EXCEPT !.pc = "done", !.status = status, !.log = "approval ok"]
  ELSE [st EXCEPT !.pc = "setting_up", !.status = status,
                  !.setup_calls = @ + 1,
                  !.log = IF status.approved THEN "increasing" ELSE "setting up"]

\* the keys the branch of the startup hook reads from a result
ResultKeysRead(st, res) ==
  IF ~("success" \in res.keys) THEN {"success"}
  ELSE IF ~res.success THEN {"success", "error"}
  ELSE IF st.status.approved THEN {"success", "tx_hash", "new_allowance_usdc"}
  ELSE {"success", "new_allowance_usdc"}

\* mutant: setup_approval is awaited outside any try block
StartupAfterSetup_NoTry(st, res) ==
  IF res.raised \/ ~(ResultKeysRead(st, res) \subseteq res.keys)
  THEN [st EXCEPT !.pc = "done", !.raised = TRUE, !.log = "raised"]
  ELSE [st EXCEPT !.pc = "done",
                  !.log = IF res.success THEN "approval set"
                          ELSE "approval failed"]

\* startup_event from the return of setup_approval to its end; an exception
\* and a missing key end in the inner except
StartupAfterSetup(st, res) ==
  IF res.raised \/ ~(ResultKeysRead(st, res) \subseteq res.keys)
  THEN [st EXCEPT !.pc = "done", !.log = "error during setup"]
  ELSE [st EXCEPT !.pc = "done",
                  !.log = IF res.success THEN "approval set"
                          ELSE "approval failed"]

\* ------------------------------------------------------------------ state
VARIABLES
  env,                   \* the process environment
  app,                   \* start, failed (import raised) or serving
  routes,                \* the paths registered with the application
  facilitator_client,    \* the singleton of facilitator_client.py
  payment_requirements,  \* X402PaymentVerifier.payment_requirements
  pc,                    \* per request: idle, verifying, settling, done
  request,               \* per request: the headers of the request
  tx_hash,               \* per request: the local tx_hash after normalisation
  calls,                 \* per request: the facilitator calls issued so far
  replies,               \* per request: the remote answer to each call and
                         \* what the client handed back for it
  result,                \* per request: the local result (of verify_payment)
  settle_result,         \* per request: the local settle_result
  outcome,               \* per request: what __call__ returned or raised
  response,              \* per request: what the route answers
  w3,                    \* the loop of _get_web3_connection
  approval,              \* the run of setup_approval
  startup                \* the run of startup_event

vars == <<env, app, routes, facilitator_client, payment_requirements, pc,
          request, tx_hash, calls, replies, result, settle_result, outcome,
          response, w3, approval, startup>>

\* what merchant_approval.py and the startup hook write
approvalVars == <<w3, approval, startup>>

\* what is written while main.py is imported, and never afterwards
startupVars == <<env, app, routes, facilitator_client, payment_requirements>>

\* no request is in flight
Idle ==
  /\ pc = [r \in Reqs |-> "idle"]
  /\ request = [r \in Reqs |-> NoRequest]
  /\ tx_hash = [r \in Reqs |-> None]
  /\ calls = [r \in Reqs |-> <<>>]
  /\ replies = [r \in Reqs |-> <<>>]
  /\ result = [r \in Reqs |-> NoResult]
  /\ settle_result = [r \in Reqs |-> NoResult]
  /\ outcome = [r \in Reqs |-> Pending]
  /\ response = [r \in Reqs |-> NoResponse]
  /\ w3 = NoWeb3
  /\ approval = NoApproval
  /\ startup = NoStartup

Init ==
  /\ env \in Envs
  /\ app = "start"
  /\ routes = {}
  /\ facilitator_client = NoFacilitatorClient
  /\ payment_requirements = NoRequirements
  /\ Idle

\* main.py is imported: x402_handler (and with it the facilitator client
\* singleton), then config, which validates and raises, then the routes
ImportMain ==
  /\ app = "start"
  /\ facilitator_client' = NewFacilitatorClient(FACILITATOR_BASE(env))
  /\ IF validate(Settings(env)) # ""
     THEN /\ app' = "failed"
          /\ UNCHANGED <<routes, payment_requirements>>
     ELSE /\ app' = "serving"
          /\ routes' = {"/photos"}
          /\ payment_requirements' = PhotosGuardRequirements(Settings(env).CHAIN)
  /\ UNCHANGED <<env, pc, request, tx_hash, calls, replies, result,
                 settle_result, outcome, response, approvalVars>>

\* the requests are served one after the other
Serial(r) == \A q \in Reqs : pc[q] = "idle"

\* mutant: the guard normalises its requirements in place
CallGuard_NormalisesInPlace(r, req) ==
  /\ "/photos" \in routes
  /\ pc[r] = "idle"
  /\ LET st == GuardEntry(payment_requirements, req)
     IN  /\ pc' = [pc EXCEPT ![r] = st.pc]
         /\ request' = [request EXCEPT ![r] = req]
         /\ tx_hash' = [tx_hash EXCEPT ![r] = st.tx_hash]
         /\ calls' = [calls EXCEPT ![r] = @ \o st.call]
         /\ outcome' = [outcome EXCEPT ![r] = st.outcome]
         /\ response' = [response EXCEPT ![r] =
              IF st.pc = "done" THEN RouteAfterGuard(st.outcome, req.accept)
              ELSE NoResponse]
  /\ payment_requirements' =
       [payment_requirements EXCEPT !.payTo = Lower(@), !.asset = Lower(@)]
  /\ UNCHANGED <<env, app, routes, facilitator_client, replies, result,
                 settle_result, approvalVars>>

\* a request arrives and __call__ runs up to its first suspension or its end
CallGuard(r, req) ==
  /\ "/photos" \in routes
  /\ pc[r] = "idle"
  /\ LET st == GuardEntry(payment_requirements, req)
     IN  /\ pc' = [pc EXCEPT ![r] = st.pc]
         /\ request' = [request EXCEPT ![r] = req]
         /\ tx_hash' = [tx_hash EXCEPT ![r] = st.tx_hash]
         /\ calls' = [calls EXCEPT ![r] = @ \o st.call]
         /\ outcome' = [outcome EXCEPT ![r] = st.outcome]
         /\ response' = [response EXCEPT ![r] =
              IF st.pc = "done" THEN RouteAfterGuard(st.outcome, req.accept)
              ELSE NoResponse]
  /\ UNCHANGED <<startupVars, approvalVars, replies, result, settle_result>>

\* mutant: the verification result is kept in one place for all requests,
\* a resuming request reads what another request in flight stored there
VerifyReturns_SharedResult(r, resp) ==
  /\ pc[r] = "verifying"
  /\ LET own == verify_payment(resp)
         res == IF \E q \in Reqs \ {r} : result[q] # NoResult
                THEN result[CHOOSE q \in Reqs \ {r} : result[q] # NoResult]
                ELSE own
         st  == GuardAfterVerify(payment_requirements, res)
     IN  /\ pc' = [pc EXCEPT ![r] = st.pc]
         /\ replies' = [replies EXCEPT ![r] =
              Append(@, [op |-> "verify_payment", resp |-> resp, res |-> own])]
         /\ result' = [result EXCEPT ![r] = IF own.raised THEN NoResult ELSE own]
         /\ calls' = [calls EXCEPT ![r] = @ \o st.call]
         /\ outcome' = [outcome EXCEPT ![r] = st.outcome]
         /\ response' = [response EXCEPT ![r] =
              IF st.pc = "done"
              THEN RouteAfterGuard(st.outcome, request[r].accept)
              ELSE NoResponse]
  /\ UNCHANGED <<startupVars, approvalVars, request, tx_hash, settle_result>>

\* verify_payment returns (or raises) and __call__ resumes
VerifyReturns(r, resp) ==
  /\ pc[r] = "verifying"
  /\ LET res == verify_payment(resp)
         st  == GuardAfterVerify(payment_requirements, res)
     IN  /\ pc' = [pc EXCEPT ![r] = st.pc]
         /\ replies' = [replies EXCEPT ![r] =
              Append(@, [op |-> "verify_payment", resp |-> resp, res |-> res])]
         /\ result' = [result EXCEPT ![r] = IF res.raised THEN NoResult ELSE res]
         /\ calls' = [calls EXCEPT ![r] = @ \o st.call]
         /\ outcome' = [outcome EXCEPT ![r] = st.outcome]
         /\ response' = [response EXCEPT ![r] =
              IF st.pc = "done"
              THEN RouteAfterGuard(st.outcome, request[r].accept)
              ELSE NoResponse]
  /\ UNCHANGED <<startupVars, approvalVars, request, tx_hash, settle_result>>

\* settle_payment returns (or raises) and __call__ resumes
SettleReturns(r, resp) ==
  /\ pc[r] = "settling"
  /\ LET res == settle_payment(resp)
         st  == GuardAfterSettle(payment_requirements, res)
     IN  /\ pc' = [pc EXCEPT ![r] = st.pc]
         /\ replies' = [replies EXCEPT ![r] =
              Append(@, [op |-> "settle_payment", resp |-> resp, res |-> res])]
         /\ settle_result' =
              [settle_result EXCEPT ![r] = IF res.raised THEN NoResult ELSE res]
         /\ calls' = [calls EXCEPT ![r] = @ \o st.call]
         /\ outcome' = [outcome EXCEPT ![r] = st.outcome]
         /\ response' = [response EXCEPT ![r] =
              IF st.pc = "done"
              THEN RouteAfterGuard(st.outcome, request[r].accept)
              ELSE NoResponse]
  /\ UNCHANGED <<startupVars, approvalVars, request, tx_hash, result>>

\* the fetch of the protected resource returns (or raises) and get_photos
\* runs to its end
FetchReturns(r, fetched) ==
  /\ pc[r] = "done"
  /\ response[r].kind = "fetching"
  /\ response' = [response EXCEPT ![r] =
       PhotosResponse(fetched, request[r].accept)]
  /\ UNCHANGED <<startupVars, approvalVars, pc, request, tx_hash, calls, replies, result,
                 settle_result, outcome>>

\* mutant: the facilitator calls of a request outlive it
Respond_KeepsCalls(r) ==
  /\ pc[r] = "done"
  /\ response[r].kind \notin {"none", "fetching"}
  /\ pc' = [pc EXCEPT ![r] = "idle"]
  /\ request' = [request EXCEPT ![r] = NoRequest]
  /\ tx_hash' = [tx_hash EXCEPT ![r] = None]
  /\ replies' = [replies EXCEPT ![r] = <<>>]
  /\ result' = [result EXCEPT ![r] = NoResult]
  /\ settle_result' = [settle_result EXCEPT ![r] = NoResult]
  /\ outcome' = [outcome EXCEPT ![r] = Pending]
  /\ response' = [response EXCEPT ![r] = NoResponse]
  /\ UNCHANGED <<startupVars, approvalVars, calls>>

\* the response is sent and the request's locals are dropped
Respond(r) ==
  /\ pc[r] = "done"
  /\ response[r].kind \notin {"none", "fetching"}
  /\ pc' = [pc EXCEPT ![r] = "idle"]
  /\ request' = [request EXCEPT ![r] = NoRequest]
  /\ tx_hash' = [tx_hash EXCEPT ![r] = None]
  /\ calls' = [calls EXCEPT ![r] = <<>>]
  /\ replies' = [replies EXCEPT ![r] = <<>>]
  /\ result' = [result EXCEPT ![r] = NoResult]
  /\ settle_result' = [settle_result EXCEPT ![r] = NoResult]
  /\ outcome' = [outcome EXCEPT ![r] = Pending]
  /\ response' = [response EXCEPT ![r] = NoResponse]
  /\ UNCHANGED <<startupVars, approvalVars>>

Next ==
  \/ ImportMain
  \/ \E r \in Reqs : Serial(r) /\ \E req \in Requests : CallGuard(r, req)
  \/ \E r \in Reqs : pc[r] = "verifying"
                      /\ \E resp \in VerifyResponses : VerifyReturns(r, resp)
  \/ \E r \in Reqs : pc[r] = "settling"
                      /\ \E resp \in SettleResponses : SettleReturns(r, resp)
  \/ \E r \in Reqs : \E fetched \in BOOLEAN : FetchReturns(r, fetched)
  \/ \E r \in Reqs : Respond(r)

Spec == Init /\ [][Next]_vars

\* ------------------------------------------------- concurrent requests
\* the requests, verify answers and settle answers of the concurrent runs
ConcurrentRequests ==
  {Request(XPayment("json", JsonObj("auth", n, Payer)), None, None,
           {"application/json"}) : n \in {<<"a">>, <<"B">>}}
  \cup {Request(XPayment("absent", NoObj), None, None, acc) :
          acc \in {{"text/html"}, {"application/json"}}}

ConcurrentVerifyResponses ==
  {Response("http", 500, "", NoData),
   Response("http", 200, "", Body("object", None, None, None)),
   Response("http", 200, "", Body("object", <<"v1">>, None, None)),
   Response("http", 200, "", Body("object", None, <<"v2">>, None))}

ConcurrentSettleResponses ==
  {Response("exception", 0, "timed out", NoData),
   Response("http", 200, "", Body("object", None, None, None))}

\* the process starts in the good environment
InitConcurrent ==
  /\ env = GoodEnv
  /\ app = "start"
  /\ routes = {}
  /\ facilitator_client = NoFacilitatorClient
  /\ payment_requirements = NoRequirements
  /\ Idle

\* the event loop runs any request that is ready: a request may arrive, and
\* an awaited call may return, while another request is suspended
NextConcurrent ==
  \/ ImportMain
  \/ \E r \in Reqs : pc[r] = "idle"
                      /\ \E req \in ConcurrentRequests : CallGuard(r, req)
  \/ \E r \in Reqs : pc[r] = "verifying"
                      /\ \E resp \in ConcurrentVerifyResponses :
                           VerifyReturns(r, resp)
  \/ \E r \in Reqs : pc[r] = "settling"
                      /\ \E resp \in ConcurrentSettleResponses :
                           SettleReturns(r, resp)
  \/ \E r \in Reqs : \E fetched \in BOOLEAN : FetchReturns(r, fetched)
  \/ \E r \in Reqs : Respond(r)

SpecConcurrent == InitConcurrent /\ [][NextConcurrent]_vars

\* __call__ run alone on one request, resumed with the facilitator answers
\* reps in their order: where it stands, its outcome and its calls
SoloRun(reqs, req, reps) ==
  LET s0 == GuardEntry(reqs, req)
      at(s, cs) == [pc |-> s.pc, outcome |-> s.outcome, calls |-> cs]
  IN  IF s0.pc = "done" \/ Len(reps) = 0 THEN at(s0, s0.call)
      ELSE LET s1 == GuardAfterVerify(reqs, verify_payment(reps[1].resp))
           IN  IF s1.pc = "done" \/ Len(reps) = 1
               THEN at(s1, s0.call \o s1.call)
               ELSE LET s2 == GuardAfterSettle(reqs,
                                               settle_payment(reps[2].resp))
                    IN  at(s2, s0.call \o s1.call \o s2.call)

\* --------------------------------------------- approval and startup hook
\* what the requests to /photos write
requestVars == <<pc, request, tx_hash, calls, replies, result, settle_result,
                 outcome, response>>

\* the lists _get_web3_connection is called with directly: the first
\* endpoints of a network, none included
UrlLists ==
  UNION {{SubSeq(rpc_urls(n), 1, k) : k \in 0..Len(rpc_urls(n))} :
           n \in NETWORKS}

\* _get_web3_connection is called for a list of endpoints
GetWeb3Connection(urls) ==
  /\ w3.pc = "idle"
  /\ approval.pc = "idle"
  /\ startup.pc = "idle"
  /\ w3' = get_web3_connection(urls)
  /\ UNCHANGED <<startupVars, requestVars, approval, startup>>

\* the loop tries its next endpoint
TryEndpoint(o) ==
  /\ w3.pc = "trying"
  /\ w3' = TryRpc(w3, o)
  /\ UNCHANGED <<startupVars, requestVars, approval, startup>>

\* the direct caller takes the connection or the ConnectionError
ConnectionReturns ==
  /\ w3.pc \in {"connected", "raised"}
  /\ approval.pc = "idle"
  /\ w3' = NoWeb3
  /\ UNCHANGED <<startupVars, requestVars, approval, startup>>

\* setup_approval is called from the command line and runs up to
\* _get_web3_connection; its three ValueErrors end it at once
CallSetupApproval(network, auto_confirm, key, facilitator_address) ==
  /\ approval.pc = "idle"
  /\ w3.pc = "idle"
  /\ startup.pc = "idle"
  /\ IF network \notin NETWORKS \/ ~key \/ ~facilitator_address
     THEN /\ approval' =
               Approval("done", network, auto_confirm, NoIo,
                        ApprovalRun(ApprovalResult(TRUE, FALSE, {},
                                                   "ValueError", None),
                                    0, FALSE))
          /\ w3' = w3
     ELSE /\ approval' = Approval("connecting", network, auto_confirm, NoIo,
                                  ApprovalRun(NoApprovalResult, 0, FALSE))
          /\ w3' = get_web3_connection(rpc_urls(network))
  /\ UNCHANGED <<startupVars, requestVars, startup>>

\* _get_web3_connection has returned or raised and setup_approval runs to
\* its end
SetupApprovalRuns(io) ==
  /\ approval.pc = "connecting"
  /\ w3.pc \in {"connected", "raised"}
  /\ approval' = Approval("done", approval.network, approval.auto_confirm, io,
                          SetupApprovalBody(approval.auto_confirm,
                                            w3.pc = "connected", io))
  /\ w3' = NoWeb3
  /\ UNCHANGED <<startupVars, requestVars, startup>>

\* the caller of setup_approval takes its result
ApprovalReturns ==
  /\ approval.pc = "done"
  /\ approval' = NoApproval
  /\ UNCHANGED <<startupVars, requestVars, w3, startup>>

\* the application starts and the startup hook runs up to its first await
StartupEvent(available, key_set) ==
  /\ app = "serving"
  /\ startup.pc = "idle"
  /\ approval.pc = "idle"
  /\ w3.pc = "idle"
  /\ startup' = StartupEntry(available, key_set)
  /\ UNCHANGED <<startupVars, requestVars, w3, approval>>

\* check_approval_status returns (or raises) and the hook resumes
CheckReturns(status) ==
  /\ startup.pc = "checking"
  /\ startup' = StartupAfterCheck(startup, status)
  /\ UNCHANGED <<startupVars, requestVars, w3, approval>>

\* setup_approval returns (or raises) and the hook runs to its end
SetupReturns(res) ==
  /\ startup.pc = "setting_up"
  /\ startup' = StartupAfterSetup(startup, res)
  /\ UNCHANGED <<startupVars, requestVars, w3, approval>>

InitApproval ==
  /\ env = GoodEnv
  /\ app = "start"
  /\ routes = {}
  /\ facilitator_client = NoFacilitatorClient
  /\ payment_requirements = NoRequirements
  /\ Idle

NextApproval ==
  \/ ImportMain
  \/ \E urls \in UrlLists : GetWeb3Connection(urls)
  \/ \E o \in RpcOutcomes : TryEndpoint(o)
  \/ ConnectionReturns
  \/ \E n \in NETWORKS \cup {"mainnet"} : \E a, k, f \in BOOLEAN :
       CallSetupApproval(n, a, k, f)
  \/ approval.pc = "connecting" /\ \E io \in ApprovalIos : SetupApprovalRuns(io)
  \/ ApprovalReturns
  \/ \E a, k \in BOOLEAN : StartupEvent(a, k)
  \/ startup.pc = "checking"
       /\ \E status \in ApprovalStatuses : CheckReturns(status)
  \/ startup.pc = "setting_up" /\ \E res \in SetupResults : SetupReturns(res)

SpecApproval == InitApproval /\ [][NextApproval]_vars

\* ======================================================= properties
Succeeded(res) == "success" \in res.keys /\ res.success

Failed(res) == res.keys # {} /\ ~Succeeded(res)

VerifyCalls(r) == {i \in 1..Len(calls[r]) : calls[r][i].op = "verify_payment"}

SettleCalls(r) == {i \in 1..Len(calls[r]) : calls[r][i].op = "settle_payment"}

Granted(r) == outcome[r].kind = "return" /\ outcome[r].granted

Denied402(r) ==
  outcome[r].kind = "http_exception" /\ outcome[r].status_code = 402

\* a verify response that carries an identifier under an accepted key
CarriesIdentifier(data) ==
  \E v \in {data.verification_id, data.id, data.verificationId} :
    v \notin {None, <<>>}

\* C1: the guard returns granted=true only if verify_payment was called for
\* the request and returned success, and either the verify response carried
\* no verification identifier or settle_payment was then called and returned
\* success.
C1_FailClosedGrant ==
  \A r \in Reqs :
    Granted(r) =>
      /\ VerifyCalls(r) = {1}
      /\ Succeeded(result[r])
      /\ \/ ~CarriesIdentifier(result[r].data) /\ SettleCalls(r) = {}
         \/ SettleCalls(r) = {2} /\ Succeeded(settle_result[r])

\* a request is granted after a verify and a settle call
C1_Witness ==
  \E r \in Reqs : Granted(r) /\ Len(calls[r]) = 2 /\ Succeeded(settle_result[r])

\* C2: per request the guard makes zero, one or two facilitator calls:
\* verify_payment at most once, settle_payment at most once and only after
\* verify_payment returned success with a verification identifier, and no
\* call is repeated after a failure.
C2_AtMostVerifyThenSettle ==
  \A r \in Reqs :
    /\ Len(calls[r]) <= 2
    /\ Cardinality(VerifyCalls(r)) <= 1
    /\ Cardinality(SettleCalls(r)) <= 1
    /\ SettleCalls(r) # {} =>
         /\ VerifyCalls(r) = {1} /\ SettleCalls(r) = {2}
         /\ Succeeded(result[r]) /\ CarriesIdentifier(result[r].data)
    /\ Failed(result[r]) => pc[r] = "done" /\ Len(calls[r]) = 1
    /\ Failed(settle_result[r]) => pc[r] = "done" /\ Len(calls[r]) = 2

\* a request whose settle call failed after its verify call succeeded
C2_Witness ==
  \E r \in Reqs : Len(calls[r]) = 2 /\ Failed(settle_result[r])

\* C3: if verify_payment returns a non-success result with error text E, the
\* guard denies with a 402 whose error text contains E and settle_payment is
\* never called.
C3_VerifyFailureDenies ==
  \A r \in Reqs :
    Failed(result[r]) =>
      /\ Denied402(r)
      /\ Contains(outcome[r].error, result[r].error)
      /\ SettleCalls(r) = {}
      /\ pc[r] = "done"

\* verify_payment answered HTTP 402 "rejected"
C3_Witness ==
  \E r \in Reqs :
    /\ Failed(result[r])
    /\ result[r].error = <<"HTTP ", "402", ": ", "rejected">>

\* C4: if verify_payment succeeds with a verification identifier and
\* settle_payment then returns a non-success result with error text E, the
\* guard denies with a 402 whose error text contains E.
C4_SettleFailureDenies ==
  \A r \in Reqs :
    (Succeeded(result[r]) /\ Failed(settle_result[r])) =>
      /\ Denied402(r)
      /\ Contains(outcome[r].error, settle_result[r].error)
      /\ ~Granted(r)

\* verification succeeded with an identifier, settlement answered
\* HTTP 402 "insufficient funds"
C4_Witness ==
  \E r \in Reqs :
    /\ Succeeded(result[r]) /\ CarriesIdentifier(result[r].data)
    /\ settle_result[r].error = <<"HTTP ", "402", ": ", "insufficient funds">>

NoPaymentHeaders(req) ==
  /\ req.x_payment.kind = "absent"
  /\ req.x_payment_hash = None
  /\ req.x_paymenthash = None

\* C6: a request that carries neither the primary payment header nor the
\* fallback hash header is denied without a facilitator call, and the
\* requirements handed back (in the pair or in the 402 body) equal the
\* configured scheme, network, asset, maxAmountRequired and payTo.
C6_NoPaymentEchoesRequirements ==
  \A r \in Reqs :
    (pc[r] = "done" /\ NoPaymentHeaders(request[r])) =>
      /\ ~Granted(r)
      /\ outcome[r].kind = "return" \/ Denied402(r)
      /\ calls[r] = <<>>
      /\ \E c \in Chains :
           /\ payment_requirements.network = c
           /\ outcome[r].accepts.scheme = "exact"
           /\ outcome[r].accepts.network = c
           /\ outcome[r].accepts.asset = USDC_TOKEN_ADDRESS(c)
           /\ outcome[r].accepts.maxAmountRequired = "10000"
           /\ outcome[r].accepts.payTo = MerchantWallet

\* a browser request without payment headers got the pair back
C6_Witness ==
  \E r \in Reqs :
    /\ pc[r] = "done" /\ NoPaymentHeaders(request[r])
    /\ outcome[r].kind = "return"
    /\ "text/html" \in request[r].accept

\* the text of the failure of each decoding stage
DecodingFailure(kind) ==
  CASE kind = "bad_base64" -> "Incorrect padding"
    [] kind = "bad_utf8" -> "'utf-8' codec can't decode byte"
    [] kind = "bad_json" -> "Expecting value"

\* C7: a primary payment header that fails base64 decoding, UTF-8 decoding
\* or JSON parsing is denied with a 402 whose error text names the decoding
\* failure, without a facilitator call, whatever the fallback hash header.
C7_MalformedPayloadDenies ==
  \A r \in Reqs :
    (pc[r] # "idle"
     /\ request[r].x_payment.kind \in {"bad_base64", "bad_utf8", "bad_json"}) =>
      /\ pc[r] = "done"
      /\ Denied402(r)
      /\ outcome[r].error = <<"Invalid X-Payment payload: ",
                              DecodingFailure(request[r].x_payment.kind)>>
      /\ calls[r] = <<>>

\* a malformed primary header next to a usable fallback hash header
C7_Witness ==
  \E r \in Reqs :
    /\ pc[r] = "done"
    /\ request[r].x_payment.kind = "bad_base64"
    /\ request[r].x_paymenthash = <<"0", "x", "B">>
    /\ Denied402(r)

\* N trimmed, lower-cased and carrying exactly one 0x prefix
Canonical(n) ==
  LET t == Lower(Strip(n))
  IN  IF StartsWith(t, <<"0", "x">>) THEN t ELSE <<"0", "x">> \o t

\* the request's primary header decodes to a payload with a text nonce
HasNonce(req) ==
  /\ req.x_payment.kind = "json"
  /\ req.x_payment.obj.shape = "auth"
  /\ IsStr(req.x_payment.obj.nonce)
  /\ req.x_payment.obj.nonce # <<>>

\* C8: for every validly encoded primary payload with nonce N, the
\* identifier passed to verify_payment is N trimmed, lower-cased and carrying
\* exactly one 0x prefix, whatever the case of N and of its prefix.
C8_NonceNormalised ==
  \A r \in Reqs :
    (VerifyCalls(r) # {} /\ HasNonce(request[r])) =>
      calls[r][1].args.transaction_hash = Canonical(request[r].x_payment.obj.nonce)

\* the fallback header of a request, whichever spelling carries it
FallbackHeader(req) ==
  IF req.x_payment_hash \notin {None, <<>>} THEN req.x_payment_hash
  ELSE req.x_paymenthash

\* the hash parts of a header <scheme>:<hash> or <hash>
HashParts(h) ==
  {b \in {SubSeq(h, i, Len(h)) : i \in 1..(Len(h) + 1)} :
     \/ b = h /\ ~HasChar(h, ":")
     \/ \E sch \in {SubSeq(h, 1, i) : i \in 0..Len(h)} :
          ~HasChar(sch, ":") /\ h = sch \o <<":">> \o b}

\* the text with a 0x prefix in front, unless it has one
WithPrefix(b) ==
  IF Len(b) >= 2 /\ b[1] = "0" /\ b[2] = "x" THEN b ELSE <<"0", "x">> \o b

\* C9: with no primary header and a fallback header <scheme>:<hash> or
\* <hash>, the derived identifier is the (trimmed) hash without the scheme
\* and with a 0x prefix, and verify_payment is called with it (lower-cased).
C9_FallbackIdentifier ==
  \A r \in Reqs :
    (pc[r] # "idle"
     /\ request[r].x_payment.kind = "absent"
     /\ FallbackHeader(request[r]) \notin {None, <<>>}) =>
      \A b \in HashParts(FallbackHeader(request[r])) :
        b # <<>> =>
          /\ tx_hash[r] = WithPrefix(Strip(b))
          /\ VerifyCalls(r) = {1}
          /\ calls[r][1].args.transaction_hash = Lower(WithPrefix(Strip(b)))

\* the header "x:B" with no primary header: verify_payment got 0xb
C9_Witness ==
  \E r \in Reqs :
    /\ request[r].x_payment.kind = "absent"
    /\ request[r].x_payment_hash = <<"x", ":", "B">>
    /\ VerifyCalls(r) = {1}
    /\ calls[r][1].args.transaction_hash = <<"0", "x", "b">>

\* the decoded payload, if there is a primary header, holds no usable nonce
NoUsableNonce(req) ==
  \/ req.x_payment.kind \in {"absent", "empty"}
  \/ /\ req.x_payment.kind = "json"
     /\ req.x_payment.obj.shape \in {"empty", "noauth", "auth"}
     /\ \/ req.x_payment.obj.shape # "auth"
        \/ req.x_payment.obj.nonce \in {None, <<>>, NonStrZero}

\* the fallback header holds no usable hash
NoUsableHash(req) ==
  \/ FallbackHeader(req) \in {None, <<>>}
  \/ HashParts(FallbackHeader(req)) = {<<>>}

\* a payment header is present (with a value)
PaymentHeadersPresent(req) ==
  \/ req.x_payment.kind \notin {"absent", "empty"}
  \/ FallbackHeader(req) \notin {None, <<>>}

\* C10: if payment headers are present but neither the decoded payload's
\* nonce nor the fallback hash header yields a non-empty identifier, the
\* guard denies with the missing-identifier reason and verify_payment is
\* not called.
C10_MissingIdentifierDenies ==
  \A r \in Reqs :
    (/\ pc[r] # "idle"
     /\ PaymentHeadersPresent(request[r])
     /\ NoUsableNonce(request[r])
     /\ NoUsableHash(request[r])) =>
      /\ pc[r] = "done"
      /\ Denied402(r)
      /\ outcome[r].error = <<"Transaction hash not found in payment headers">>
      /\ VerifyCalls(r) = {}

\* a decoded payload without nonce next to a fallback header "e:"
C10_Witness ==
  \E r \in Reqs :
    /\ pc[r] = "done"
    /\ request[r].x_payment.kind = "json"
    /\ request[r].x_payment.obj.shape = "auth"
    /\ request[r].x_payment.obj.nonce = None
    /\ request[r].x_payment_hash = <<"e", ":">>
    /\ Denied402(r)

\* the guard ended without granting
NotGranted(r) == pc[r] = "done" /\ ~Granted(r)

\* C11: every per-request failure inside the guard surfaces as a structured
\* 402 with x402Version 1, an error text and an accepts block equal to the
\* configured requirements (the no-payment pair for a browser aside); no
\* failure leaves the guard in another form.
C11_FailuresAreStructured402 ==
  \A r \in Reqs :
    NotGranted(r) =>
      \/ /\ Denied402(r)
         /\ outcome[r].x402Version = 1
         /\ outcome[r].error # <<>>
         /\ outcome[r].accepts = payment_requirements
      \/ /\ outcome[r].kind = "return"
         /\ outcome[r].accepts = payment_requirements

\* C12: every denial of /photos (no payment evidence, malformed payload,
\* missing identifier, verification failed, settlement failed) is answered
\* with status 402, whatever the Accept header.
C12_DenialsAnswered402 ==
  \A r \in Reqs :
    (NotGranted(r) /\ outcome[r].kind \in {"return", "http_exception"}) =>
      response[r].status_code = 402

\* C13: the resource fetch is issued only for a request the guard granted;
\* no denied request reaches the fetch.
C13_FetchOnlyWhenGranted ==
  \A r \in Reqs :
    /\ response[r].fetch # "none" => pc[r] = "done" /\ Granted(r)
    /\ NotGranted(r) => response[r].fetch = "none"

\* a granted request whose resource fetch returned
C13_Witness ==
  \E r \in Reqs : Granted(r) /\ response[r].fetch = "ok"

\* C14: verify_payment and settle_payment never raise: every failure of the
\* remote call, a 200 answer with an unparseable body included, comes back
\* as a {success: false, error} value.
C14_ClientNeverRaises ==
  \A r \in Reqs : \A i \in 1..Len(replies[r]) :
    /\ ~replies[r][i].res.raised
    /\ replies[r][i].resp.kind = "exception"
         \/ replies[r][i].resp.status_code # 200
         \/ replies[r][i].resp.body.json = "invalid"
       => /\ {"success", "error"} \subseteq replies[r][i].res.keys
          /\ ~replies[r][i].res.success

\* C15: the client returns success=true exactly when the call completed
\* without a transport exception and the status is 200; a non-200 status
\* returns success=false with an error text and the status_code; a transport
\* exception returns success=false with an error text and no status_code.
C15_SuccessIffStatus200 ==
  \A r \in Reqs : \A i \in 1..Len(replies[r]) :
    LET resp == replies[r][i].resp
        res  == replies[r][i].res
    IN  /\ Succeeded(res) <=> (resp.kind = "http" /\ resp.status_code = 200)
        /\ (resp.kind = "http" /\ resp.status_code # 200) =>
             /\ {"success", "error", "status_code"} \subseteq res.keys
             /\ ~res.success
             /\ res.status_code = resp.status_code
        /\ resp.kind = "exception" =>
             /\ {"success", "error"} \subseteq res.keys
             /\ "status_code" \notin res.keys
             /\ ~res.success

\* C16: the guard's PaymentRequirements are never changed after
\* construction: after any requests, every field has the value it was
\* constructed with.
C16_RequirementsNeverChange ==
  app = "serving" =>
    \E c \in Chains :
      /\ c = (IF "CHAIN" \in env.defined THEN env.CHAIN ELSE "base-sepolia")
      /\ payment_requirements =
           [scheme |-> "exact", network |-> c, maxAmountRequired |-> "10000",
            resource |-> "https://merchant-demo-six.vercel.app/photos",
            description |-> "Pay in crypto for premium access to photos",
            payTo |-> env.MERCHANT_PAYOUT_WALLET, maxTimeoutSeconds |-> 60,
            asset |-> USDC_TOKEN_ADDRESS(c),
            extra |-> [name |-> "USDC", version |-> "2"]]

\* a request was verified, settled and granted, another one may follow
C16_Witness ==
  \E r \in Reqs : Granted(r) /\ Len(calls[r]) = 2 /\ response[r].fetch = "ok"

\* C19: constructing the guard or the facilitator client with a missing or
\* empty required identifier fails, so no request is ever handled by a guard
\* or a client holding an empty network, payTo, asset or base URL.
C19_NoEmptyIdentifierInUse ==
  (\E r \in Reqs : pc[r] # "idle") =>
    /\ facilitator_client.constructed
    /\ facilitator_client.base_url \notin {None, <<>>}
    /\ payment_requirements.network # ""
    /\ payment_requirements.payTo # <<>>
    /\ payment_requirements.asset # <<>>

\* the environment does not hold a valid configuration
InvalidConfiguration(e) ==
  \/ "MERCHANT_PAYOUT_WALLET" \notin e.defined
  \/ e.MERCHANT_PAYOUT_WALLET = <<>>
  \/ Len(e.MERCHANT_PAYOUT_WALLET) # 42
  \/ e.MERCHANT_PAYOUT_WALLET[1] # "0" \/ e.MERCHANT_PAYOUT_WALLET[2] # "x"
  \/ "OXMETA_TREASURY_WALLET" \notin e.defined
  \/ e.OXMETA_TREASURY_WALLET = <<>>
  \/ "FACILITATOR_BASE_URL" \notin e.defined
  \/ e.FACILITATOR_BASE_URL = <<>>
  \/ "CHAIN" \in e.defined /\ e.CHAIN \notin {"base", "base-sepolia"}

\* C20: with a missing or malformed merchant wallet, a missing treasury
\* wallet or facilitator base URL, or a chain that is neither base nor
\* base-sepolia, importing the configuration raises and the protected route
\* is never registered (and so never serves a request).
C20_ConfigurationErrorIsFatal ==
  (app # "start" /\ InvalidConfiguration(env)) =>
    /\ app = "failed"
    /\ routes = {}
    /\ \A r \in Reqs : pc[r] = "idle"

\* the import failed on a wallet address of the wrong length
C20_Witness ==
  /\ app = "failed"
  /\ "MERCHANT_PAYOUT_WALLET" \in env.defined
  /\ Len(env.MERCHANT_PAYOUT_WALLET) = 4

\* a request is in the guard or waits for its response
InFlight(r) == pc[r] # "idle"

\* the identifiers a verify answer carries under one of its three keys
IdsOf(resp) ==
  {resp.body.verification_id, resp.body.id, resp.body.verificationId} \ {None}

\* C17: concurrent requests are independent: under every interleaving of two
\* requests suspended at their verify and settle calls, each request's
\* position, outcome and facilitator calls are those of the same request run
\* alone with the same facilitator answers, and the identifier it passes to
\* settle_payment is one its own verify_payment returned.
C17_ConcurrentRequestsIndependent ==
  \A r \in Reqs :
    InFlight(r) =>
      /\ LET solo == SoloRun(payment_requirements, request[r], replies[r])
         IN  /\ pc[r] = solo.pc
             /\ outcome[r] = solo.outcome
             /\ calls[r] = solo.calls
      /\ Len(calls[r]) = 2 =>
           calls[r][2].args.verification_id \in IdsOf(replies[r][1].resp)

\* two requests were suspended together and went on to settle with the
\* different identifiers their own verify calls returned
C17_Witness ==
  \E r, q \in Reqs :
    /\ r # q
    /\ Len(calls[r]) = 2 /\ Len(calls[q]) = 2
    /\ calls[r][2].args.verification_id = <<"v1">>
    /\ calls[q][2].args.verification_id = <<"v2">>
    /\ request[r] # request[q]

\* s is an initial part of t
IsPrefix(s, t) ==
  Len(s) <= Len(t) /\ \A i \in 1..Len(s) : s[i] = t[i]

Denied(r) ==
  \/ outcome[r].kind = "return" /\ ~outcome[r].granted
  \/ Denied402(r)

\* C21: the per-request state machine is linear and terminating: a request
\* moves forward only, has no outcome before its end, and ends in exactly
\* one terminal outcome, GRANT or DENY.
C21_EndsInGrantOrDeny ==
  \A r \in Reqs :
    /\ pc[r] \in {"verifying", "settling"} => outcome[r].kind = "pending"
    /\ pc[r] = "verifying" => Len(calls[r]) = 1 /\ replies[r] = <<>>
    /\ pc[r] = "settling" => Len(calls[r]) = 2 /\ Len(replies[r]) = 1
    /\ pc[r] = "done" => (Granted(r) /\ ~Denied(r)) \/ (Denied(r) /\ ~Granted(r))

\* the request without its Accept header
WithoutAccept(req) == [req EXCEPT !.accept = {}]

\* C22: the guard is agnostic to content negotiation: two requests that
\* differ only in their Accept header get the same decision from the guard,
\* signalled in the same way, and make the same facilitator calls.
C22_GuardIgnoresAccept ==
  \A r, q \in Reqs :
    (/\ InFlight(r) /\ InFlight(q)
     /\ WithoutAccept(request[r]) = WithoutAccept(request[q])
     /\ replies[r] = replies[q]) =>
      /\ outcome[r].kind = outcome[q].kind
      /\ outcome[r].granted = outcome[q].granted
      /\ calls[r] = calls[q]

\* why a request was denied, told from its headers and its facilitator
\* results
DenialReason(r) ==
  CASE ~PaymentHeadersPresent(request[r]) -> "no-payment"
    [] request[r].x_payment.kind \in {"bad_base64", "bad_utf8", "bad_json"}
         \/ (request[r].x_payment.kind = "json"
             /\ request[r].x_payment.obj.shape = "nondict") -> "malformed-payload"
    [] Failed(settle_result[r]) -> "settlement-failed"
    [] Failed(result[r]) -> "verification-failed"
    [] OTHER -> "missing-identifier"

\* the denial reason an error text tells by the words it starts with
ReasonOfText(error) ==
  CASE error = <<>> -> "none"
    [] error[1] = "X-Payment header is required." -> "no-payment"
    [] error[1] = "Invalid X-Payment payload: " -> "malformed-payload"
    [] error[1] = "Transaction hash not found in payment headers" ->
         "missing-identifier"
    [] error[1] = "Payment verification failed: " -> "verification-failed"
    [] error[1] = "Payment settlement failed: " -> "settlement-failed"
    [] OTHER -> "none"

\* C23: verification and settlement failures are reported distinctly: the
\* error text of every 402 tells the denial reason (no payment, malformed
\* payload, missing identifier, verification failed, settlement failed),
\* whatever error text the facilitator returned.
C23_ErrorTextTellsReason ==
  \A r \in Reqs :
    Denied402(r) => ReasonOfText(outcome[r].error) = DenialReason(r)

\* a settlement that failed with the facilitator's text after a successful
\* verification
C23_Witness ==
  \E r \in Reqs :
    /\ Denied402(r)
    /\ Succeeded(result[r]) /\ Failed(settle_result[r])
    /\ outcome[r].error =
         <<"Payment settlement failed: ", "HTTP ", "402", ": ",
           "insufficient funds">>

\* the chain the process is configured for
ConfiguredChain ==
  IF "CHAIN" \in env.defined THEN env.CHAIN ELSE "base-sepolia"

\* C24: whenever verify_payment is called, its arguments are the
\* transaction identifier lower-cased, the configured network, the
\* configured payTo lower-cased, the configured maxAmountRequired and the
\* configured asset lower-cased, whatever the request's payload holds.
C24_VerifyArguments ==
  \A r \in Reqs : \A i \in VerifyCalls(r) :
    /\ calls[r][i].args.transaction_hash = Lower(tx_hash[r])
    /\ calls[r][i].args.chain = ConfiguredChain
    /\ calls[r][i].args.seller_address = Lower(env.MERCHANT_PAYOUT_WALLET)
    /\ calls[r][i].args.expected_amount = "10000"
    /\ calls[r][i].args.expected_token = Lower(USDC_TOKEN_ADDRESS(ConfiguredChain))

\* verify_payment was called for a payload that names a payer and an
\* upper-case nonce; the seller is the configured wallet in lower case
C24_Witness ==
  \E r \in Reqs :
    /\ VerifyCalls(r) = {1}
    /\ request[r].x_payment.kind = "json"
    /\ request[r].x_payment.obj.from = Payer
    /\ request[r].x_payment.obj.nonce = <<"B">>
    /\ calls[r][1].args.transaction_hash = <<"0", "x", "b">>
    /\ calls[r][1].args.seller_address[3] = "a"

\* C25: whenever verify_payment is called for a request whose primary header
\* was present and decoded, the metadata holds the full decoded payload
\* under paymentPayload, for every decoded payload including an empty
\* object, and holds payer exactly when payload.authorization.from is
\* present.
C25_MetadataCarriesPayload ==
  \A r \in Reqs : \A i \in VerifyCalls(r) :
    request[r].x_payment.kind = "json" =>
      /\ "paymentPayload" \in calls[r][i].args.metadata.keys
      /\ calls[r][i].args.metadata.paymentPayload = request[r].x_payment.obj
      /\ "payer" \in calls[r][i].args.metadata.keys <=>
           (request[r].x_payment.obj.shape = "auth"
            /\ request[r].x_payment.obj.from # None)

\* the first non-empty value under verification_id, id, verificationId
FirstIdentifier(body) ==
  IF body.verification_id \notin {None, <<>>} THEN body.verification_id
  ELSE IF body.id \notin {None, <<>>} THEN body.id
  ELSE body.verificationId

\* C26: whenever settle_payment is called, its verification_id is the
\* identifier of this request's verify response, its destination_address is
\* the configured payTo lower-cased, and no amount is passed.
C26_SettleArguments ==
  \A r \in Reqs : \A i \in SettleCalls(r) :
    /\ replies[r] # <<>>
    /\ replies[r][1].op = "verify_payment"
    /\ calls[r][i].args.verification_id = FirstIdentifier(replies[r][1].resp.body)
    /\ calls[r][i].args.verification_id \notin {None, <<>>}
    /\ calls[r][i].args.destination_address = Lower(env.MERCHANT_PAYOUT_WALLET)
    /\ calls[r][i].args.amount = None

\* settle_payment was called with the identifier the verify response held
\* under the key id
C26_Witness ==
  \E r \in Reqs :
    /\ SettleCalls(r) = {2}
    /\ replies[r][1].resp.body = Body("object", None, <<"v2">>, <<"v3">>)
    /\ calls[r][2].args.verification_id = <<"v2">>

\* C28: the verification identifier is the first non-empty value under
\* verification_id, then id, then verificationId; settlement is attempted
\* exactly when one of these keys holds a non-empty value.
C28_IdentifierByKeyOrder ==
  \A r \in Reqs :
    (Succeeded(result[r]) /\ result[r].data.json = "object") =>
      /\ SettleCalls(r) # {} <=> CarriesIdentifier(result[r].data)
      /\ \A i \in SettleCalls(r) :
           calls[r][i].args.verification_id = FirstIdentifier(result[r].data)

\* the verify response held an empty verification_id and values under both
\* other keys: the value under id was taken
C28_Witness ==
  \E r \in Reqs :
    /\ Succeeded(result[r])
    /\ result[r].data = Body("object", <<>>, <<"v2">>, <<"v3">>)
    /\ SettleCalls(r) = {2}
    /\ calls[r][2].args.verification_id = <<"v2">>

\* the decoded payload of the primary header holds a nonce that is present
\* and non-empty: a non-empty text, or a value that is no text and no zero
NoncePresent(req) ==
  /\ req.x_payment.kind = "json"
  /\ req.x_payment.obj.shape = "auth"
  /\ req.x_payment.obj.nonce \notin {None, <<>>, NonStrZero}

\* C27: the nonce of the decoded primary payload takes precedence: when it
\* is present and non-empty the identifier is derived from it and the
\* fallback hash header is ignored; the fallback hash header is used only
\* when the primary header is absent or its payload yields no nonce.
C27_NonceTakesPrecedence ==
  \A r \in Reqs :
    /\ (InFlight(r) /\ NoncePresent(request[r])) =>
         IF IsStr(request[r].x_payment.obj.nonce)
         THEN /\ tx_hash[r] = WithPrefix(Strip(request[r].x_payment.obj.nonce))
              /\ VerifyCalls(r) = {1}
         ELSE tx_hash[r] = request[r].x_payment.obj.nonce /\ calls[r] = <<>>
    /\ (InFlight(r) /\ NoUsableNonce(request[r]) /\ ~NoUsableHash(request[r])) =>
         \A b \in HashParts(FallbackHeader(request[r])) :
           b # <<>> => tx_hash[r] = WithPrefix(Strip(b))

\* a payload with the nonce 0Xa next to the fallback header 0xB: the
\* identifier comes from the nonce
C27_Witness ==
  \E r \in Reqs :
    /\ request[r].x_payment.kind = "json"
    /\ request[r].x_payment.obj.nonce = <<"0", "X", "a">>
    /\ request[r].x_paymenthash = <<"0", "x", "B">>
    /\ VerifyCalls(r) = {1}
    /\ tx_hash[r] = <<"0", "x", "0", "X", "a">>

\* the text is in lower case
IsLowerCase(t) == Lower(t) = t

\* C29: every transaction identifier passed to verify_payment is lower-case,
\* starts with 0x and has at least one character after the prefix that is
\* no white space.
C29_IdentifierWellFormed ==
  \A r \in Reqs : \A i \in VerifyCalls(r) :
    LET t == calls[r][i].args.transaction_hash
    IN  /\ IsLowerCase(t)
        /\ Len(t) >= 2 /\ t[1] = "0" /\ t[2] = "x"
        /\ Len(t) > 2
        /\ \E j \in 3..Len(t) : t[j] # " "

\* C30: the guard returns the pair (granted=false, requirements) without
\* raising only when the request has no payment header at all and its
\* Accept header contains text/html; every other denial is raised as a 402,
\* so the pair (and the paywall page the route makes of it) always means
\* that no payment evidence was presented.
C30_PairOnlyWithoutPayment ==
  \A r \in Reqs :
    /\ (outcome[r].kind = "return" /\ ~outcome[r].granted) =>
         /\ ~PaymentHeadersPresent(request[r])
         /\ "text/html" \in request[r].accept
         /\ calls[r] = <<>>
    /\ (Denied(r) /\ ~(~PaymentHeadersPresent(request[r])
                       /\ "text/html" \in request[r].accept)) => Denied402(r)
    /\ (response[r].body = <<"paywall.html">>
        \/ response[r].body = <<"X-PAYMENT header is required.">>) =>
         ~PaymentHeadersPresent(request[r])

\* a browser without payment headers got the pair and the paywall page
C30_Witness ==
  \E r \in Reqs :
    /\ outcome[r].kind = "return" /\ ~outcome[r].granted
    /\ request[r].accept = {"text/html"}
    /\ response[r].body = <<"paywall.html">>

\* the outcomes of the endpoints tried so far, none connected
AllFailed(tried) ==
  \A k \in 1..Len(tried) : tried[k].outcome \in {"not_connected", "raises"}

\* C31: _get_web3_connection tries the endpoints in list order and returns
\* the connection of the first endpoint that reports connected; an endpoint
\* that raises or reports not connected never stops later endpoints from
\* being tried; it raises ConnectionError exactly when every endpoint of the
\* list failed.
C31_EndpointsTriedInOrder ==
  /\ Len(w3.tried) <= Len(w3.urls)
  /\ \A k \in 1..Len(w3.tried) : w3.tried[k].url = w3.urls[k]
  /\ \A k \in 1..(Len(w3.tried) - 1) :
       w3.tried[k].outcome \in {"not_connected", "raises"}
  /\ w3.pc = "connected" <=>
       /\ w3.tried # <<>>
       /\ w3.tried[Len(w3.tried)].outcome = "connected"
  /\ w3.pc = "connected" => w3.url = w3.urls[Len(w3.tried)]
  /\ w3.pc = "raised" <=>
       (w3.pc # "idle" /\ Len(w3.tried) = Len(w3.urls) /\ AllFailed(w3.tried))
  /\ w3.pc = "trying" =>
       Len(w3.tried) < Len(w3.urls) /\ AllFailed(w3.tried)

\* the first endpoint raised, the second was not connected, the third one
\* is returned
C31_Witness ==
  /\ w3.pc = "connected"
  /\ Len(w3.tried) = 3
  /\ w3.tried[1].outcome = "raises"
  /\ w3.tried[2].outcome = "not_connected"
  /\ w3.url = "https://base-sepolia-rpc.publicnode.com"

\* C32: when auto_confirm is false, setup_approval sends the approve
\* transaction only after the operator answered yes or y to the
\* confirmation prompt; in every other run with auto_confirm false no
\* transaction is sent.
C32_SendsOnlyAfterYes ==
  (approval.pc = "done" /\ ~approval.auto_confirm /\ approval.sent > 0) =>
    /\ approval.io.isatty
    /\ Lower(Strip(approval.io.answer)) \in {<<"y", "e", "s">>, <<"y">>}

\* setup_approval ran to a result mapping
Returned(a) == a.pc = "done" /\ ~a.result.raised

\* C33: setup_approval sends no transaction when the current allowance
\* covers the requested amount (success with already_approved and a null
\* tx_hash) and none when the ETH balance is below 0.001 ETH (failure with
\* insufficient_gas); the allowance is checked first, so a sufficient
\* allowance succeeds even with no ETH.
C33_NoTransactionWithoutNeedOrGas ==
  Returned(approval) =>
    /\ approval.io.allowance >= 100 * 1000 =>
         /\ approval.result.success
         /\ "already_approved" \in approval.result.keys
         /\ approval.result.tx_hash = None
         /\ approval.sent = 0
    /\ (approval.io.allowance < 100 * 1000 /\ approval.io.eth < 10) =>
         /\ ~approval.result.success
         /\ "insufficient_gas" \in approval.result.keys
         /\ approval.sent = 0

\* the allowance covers the amount and the wallet holds no ETH
C33_Witness ==
  /\ Returned(approval)
  /\ approval.io.allowance = 100 * 1000
  /\ approval.io.eth = 0
  /\ approval.result.success
  /\ "already_approved" \in approval.result.keys

\* setup_approval went on to its try block
ReachedTransaction(a) ==
  /\ Returned(a)
  /\ a.result.keys \cap {"already_approved", "insufficient_gas"} = {}
  /\ a.result.error # "Approval cancelled by user"

\* C34: setup_approval returns success with a non-null tx_hash only if
\* exactly one approve transaction was sent and its receipt has status 1; a
\* receipt with another status returns failure carrying the tx_hash, and an
\* exception while building, signing, sending or awaiting the transaction
\* returns failure with the error text instead of propagating.
C34_SuccessOnlyWithReceipt ==
  /\ (approval.pc = "done" /\ approval.result.success
        /\ approval.result.tx_hash # None) =>
       /\ approval.sent = 1
       /\ approval.io.tx = "status_1"
       /\ ~approval.result.raised
  /\ (approval.pc = "done" /\ approval.sent > 0 /\ approval.io.tx = "status_0") =>
       /\ ~approval.result.raised
       /\ ~approval.result.success
       /\ approval.result.tx_hash # None
  /\ (approval.pc = "done" /\ approval.sent <= 1
        /\ approval.io.tx \in {"build_raises", "sign_raises", "send_raises",
                              "wait_raises"}
        /\ approval.result.error = approval.io.tx) =>
       /\ ~approval.result.raised
       /\ ~approval.result.success
       /\ "error" \in approval.result.keys
  /\ ReachedTransaction(approval) =>
       \/ approval.result.success /\ approval.io.tx = "status_1"
       \/ ~approval.result.success /\ "error" \in approval.result.keys
  /\ approval.sent <= 1

\* one transaction was sent and its receipt has status 1
C34_Witness ==
  /\ approval.pc = "done"
  /\ approval.result.success
  /\ approval.result.tx_hash = <<"tx">>
  /\ approval.sent = 1

\* C35: the startup hook never prevents the application from starting:
\* whatever check_approval_status or setup_approval return or raise, and
\* whether or not the approval module or the private key is available,
\* startup_event ends without raising.
C35_StartupNeverRaises ==
  /\ ~startup.raised
  /\ startup.pc # "idle" => app = "serving"
  /\ startup.pc = "done" => startup.log # ""

\* setup_approval raised, or its result lacked a key, and the hook ended
C35_Witness ==
  /\ startup.pc = "done"
  /\ startup.setup_calls = 1
  /\ startup.log = "error during setup"

\* C36: during startup setup_approval is called at most once, and only when
\* the approval module is available, MERCHANT_PRIVATE_KEY is set and the
\* status check returned either not approved or an allowance below 10 USDC;
\* it is never called when the status check itself failed.
C36_SetupCalledAtMostOnce ==
  /\ startup.setup_calls <= 1
  /\ startup.setup_calls = 1 =>
       /\ startup.available /\ startup.key_set
       /\ startup.status.kind = "dict"
       /\ ~startup.status.approved \/ startup.status.allowance_usdc < 100 * 10
  /\ startup.status.kind = "raises" => startup.setup_calls = 0
  /\ startup.pc = "setting_up" => startup.setup_calls = 1

\* the status check returned approved with 9.99 USDC and setup_approval was
\* called
C36_Witness ==
  /\ startup.setup_calls = 1
  /\ startup.status.approved
  /\ startup.status.allowance_usdc = 999
====
